---- MODULE Spec2Model ----
(***************************************************************************)
(* maildirexport.py: Main.run / Main.exportDir mirror a directory tree     *)
(* and MaildirExporter.recursiveExport writes one .eml file per message.   *)
(*                                                                         *)
(* Strings (subjects, file names) are sequences of Unicode code points,    *)
(* paths are sequences of names.  The source tree is read-only and is      *)
(* disjoint from the destination tree.                                     *)
(***************************************************************************)
EXTENDS Integers, Sequences, FiniteSets, TLC

VARIABLES
    src,      \* source tree: path relative to srcPath |-> "dir" | "file"
    mail,     \* store path |-> sequence of the messages of that store
    force,    \* the force argument of run
    fs0,      \* destination file system when run is called
    fs,       \* destination file system: path relative to dstPath |-> entry
    pc,       \* position of run: start, rmdone, walk, done, raised
    stack,    \* call stack of exportDir / recursiveExport frames, top last
    ret,      \* return value of run: unset, False, None
    log,      \* critical message logged by run, or none
    err,      \* the exception that was raised, or none
    lastOp,   \* the last os.mkdir / open(..., 'wb') and how it ended
    created,  \* the paths os.mkdir has created, in order
    subject,  \* sanitizer: the decoded subject
    safeSubject, \* sanitizer: the sanitized subject
    again,    \* sanitizer: the sanitized subject sanitized once more
    step      \* sanitizer: in, once, twice

vars == <<src, mail, force, fs0, fs, pc, stack, ret, log, err, lastOp,
          created, subject, safeSubject, again, step>>

runVars == <<src, mail, force, fs0, fs, pc, stack, ret, log, err, lastOp, created>>
sanVars == <<subject, safeSubject, again, step>>

(***************************************************************************)
(* Bounds                                                                  *)
(***************************************************************************)
MaxMsgs == 2      \* messages in the whole source tree
MaxPre == 1       \* sanitizer: free characters before the filler
MaxSuf == 2       \* sanitizer: free characters after the filler
MaxOver == 1      \* sanitizer: filler length up to MAXSUBJLEN + MaxOver

SeqsUpTo(n, S) == UNION {[1..k -> S] : k \in 0..n}

(***************************************************************************)
(* Subject sanitization, lines 75-76, 84, 124-127                          *)
(***************************************************************************)
\* '*', '.', '"', '/', '\', '[', ']', ':', ';', '|'
REPLACECHARS == {42, 46, 34, 47, 92, 91, 93, 58, 59, 124}
MAXSUBJLEN == 100
removeChars == 0..31
Underscore == 95
Ellipsis == 8230

TruncateNoSlice(s) ==
    IF Len(s) > MAXSUBJLEN THEN s \o <<Ellipsis>> ELSE s

\* if len(safeSubject) > MAXSUBJLEN: safeSubject[:MAXSUBJLEN] + '...'
Truncate(s) ==
    IF Len(s) > MAXSUBJLEN THEN SubSeq(s, 1, MAXSUBJLEN) \o <<Ellipsis>> ELSE s

ReplaceUnsafeNoPipe(s) ==
    [i \in 1..Len(s) |-> IF s[i] \in REPLACECHARS \ {124} THEN Underscore ELSE s[i]]

\* str.translate({ord(x): '_' for x in REPLACECHARS})
ReplaceUnsafe(s) ==
    [i \in 1..Len(s) |-> IF s[i] \in REPLACECHARS THEN Underscore ELSE s[i]]

\* str.translate({ord(x): '' for x in removeChars})
RemoveControl(s) == SelectSeq(s, LAMBDA c : c \notin removeChars)

SafeSubject(s) == Truncate(RemoveControl(ReplaceUnsafe(s)))

(***************************************************************************)
(* Names and paths                                                         *)
(***************************************************************************)
MAILDIR == <<77, 97, 105, 108, 100, 105, 114>>    \* 'Maildir', line 60
Dot == 46
NameS == <<115>>                 \* 's', basename of srcPath
NameA == <<97>>                  \* 'a'
NameB == <<98>>                  \* 'b'
NameX == <<120>>                 \* 'x'
NameF == <<70>>                  \* 'F'
NameG == <<71>>                  \* 'G'
NameCur == <<99, 117, 114>>      \* 'cur'
NameNew == <<110, 101, 119>>     \* 'new'
NameTmp == <<116, 109, 112>>     \* 'tmp'

Parent(p) == SubSeq(p, 1, Len(p) - 1)
Last(p) == p[Len(p)]
IsUnder(d, p) == Len(p) >= Len(d) /\ SubSeq(p, 1, Len(d)) = d

\* os.path.join(path, name)
Join(path, name) == Append(path, name)

\* os.path.isdir on the source tree
IsDir(tree, p) == p \in DOMAIN tree /\ tree[p] = "dir"

\* os.listdir on the source tree
ListDir(tree, p) == {Last(q) : q \in {r \in DOMAIN tree : Len(r) = Len(p) + 1 /\ Parent(r) = p}}

\* mailbox.Maildir.list_folders: entries '.name' that are directories
ListFolders(tree, p) ==
    {Tail(e) : e \in {n \in ListDir(tree, p) :
                        Len(n) > 1 /\ n[1] = Dot /\ IsDir(tree, Join(p, n))}}

\* mailbox.Maildir iteration reads the new and cur subdirectories
StoreReadable(tree, p) ==
    IsDir(tree, Join(p, NameNew)) /\ IsDir(tree, Join(p, NameCur))

(***************************************************************************)
(* Messages: the Subject header as email.header.decode_header gives its    *)
(* first chunk, the Date header, and the wire bytes                        *)
(***************************************************************************)
NoSubjectText == <<40, 110, 111, 32, 115, 117, 98, 106, 101, 99, 116, 41>>
ReplacementChar == 65533

\* bytes.decode('ascii', errors='replace') and bytes.decode(errors='replace')
\* on bytes that are ASCII or the invalid byte 255
DecodeReplace(bytes) ==
    [i \in 1..Len(bytes) |-> IF bytes[i] < 128 THEN bytes[i] ELSE ReplacementChar]

\* bytes.decode(charset) raises on a byte the charset cannot decode
DecodeStrictFails(bytes) == \E i \in 1..Len(bytes) : bytes[i] >= 128

KnownCharsets == {"utf-8", "ascii"}

\* lines 99-116: "raise" stands for the UnicodeDecodeError of line 112
DecodeSubject(m) ==
    IF m.shape = "absent" \/ (m.shape = "str" /\ m.val = <<>>)
      THEN [raise |-> FALSE, text |-> NoSubjectText]
    ELSE IF m.shape = "str"
      THEN [raise |-> FALSE, text |-> m.val]
    ELSE IF m.charset = "" \/ m.charset = "unknown-8bit"
      THEN [raise |-> FALSE, text |-> DecodeReplace(m.val)]
    ELSE IF m.charset \notin KnownCharsets
      THEN [raise |-> FALSE, text |-> DecodeReplace(m.val)]
    ELSE IF DecodeStrictFails(m.val)
      THEN [raise |-> TRUE, text |-> <<>>]
    ELSE [raise |-> FALSE, text |-> m.val]

\* lines 118-122: seconds since the epoch, 0 without a parsable Date
DateOf(m) == IF m.date = "ok" THEN m.secs ELSE 0

Digit(n) == 48 + n
TwoDigits(n) == <<Digit(n \div 10), Digit(n % 10)>>

\* date.strftime('%Y-%m-%d %H:%M:%S') for the first hour of 1970-01-01, UTC
Strftime(secs) ==
    <<49, 57, 55, 48, 45, 48, 49, 45, 48, 49, 32, 48, 48, 58>>
        \o TwoDigits(secs \div 60) \o <<58>> \o TwoDigits(secs % 60)

\* line 129: "{} {}.eml".format(...)
FileName(m) ==
    Strftime(DateOf(m)) \o <<32>> \o SafeSubject(DecodeSubject(m).text)
        \o <<46, 101, 109, 108>>

Msg(shape, charset, val, date, secs, wire) ==
    [shape |-> shape, charset |-> charset, val |-> val,
     date |-> date, secs |-> secs, wire |-> wire]

MsgSet == {
    Msg("absent", "", <<>>, "absent", 0, 1),                \* no Subject, no Date
    Msg("str", "", <<97, 42>>, "ok", 0, 2),                 \* 'a*'
    Msg("bytes", "", <<97, 255>>, "bad", 0, 3),             \* unlabeled bytes
    Msg("bytes", "x-bogus", <<97, 95>>, "ok", 0, 4),        \* unknown charset, 'a_'
    Msg("bytes", "utf-8", <<255>>, "ok", 1, 5),             \* malformed for its charset
    Msg("bytes", "utf-8", <<97, 9>>, "ok", 61, 6) }         \* 'a<TAB>'

(***************************************************************************)
(* The destination file system                                             *)
(***************************************************************************)
DirEntry(old) == [kind |-> "dir", old |-> old, data |-> 0]
FileEntry(old, data) == [kind |-> "file", old |-> old, data |-> data]

Put(f, p, e) == [q \in DOMAIN f \cup {p} |-> IF q = p THEN e ELSE f[q]]

\* os.path.isdir / os.path.exists on the destination
DstIsDir(f, p) == p \in DOMAIN f /\ f[p].kind = "dir"
DstExists(f, p) == p \in DOMAIN f

\* how os.mkdir(p) ends
MkdirResult(f, p) ==
    IF p \in DOMAIN f THEN "FileExistsError"
    ELSE IF Parent(p) \notin DOMAIN f THEN "FileNotFoundError"
    ELSE IF f[Parent(p)].kind # "dir" THEN "NotADirectoryError"
    ELSE "ok"

\* how open(p, 'wb') ends
OpenResult(f, p) ==
    IF Parent(p) \notin DOMAIN f THEN "FileNotFoundError"
    ELSE IF f[Parent(p)].kind # "dir" THEN "NotADirectoryError"
    ELSE IF p \in DOMAIN f /\ f[p].kind = "dir" THEN "IsADirectoryError"
    ELSE "ok"

RmtreeTopOnly(f, d) == [q \in DOMAIN f \ {d} |-> f[q]]

\* shutil.rmtree(d) on a directory
Rmtree(f, d) == [q \in {r \in DOMAIN f : ~IsUnder(d, r)} |-> f[q]]

(***************************************************************************)
(* Inputs of run: the source tree, its messages, the destination           *)
(***************************************************************************)
TreeOf(E) == [p \in {e[1] : e \in E} |-> (CHOOSE e \in E : e[1] = p)[2]]

D(p) == <<p, "dir">>
F(p) == <<p, "file">>
StoreAt(p) == {D(p), D(Join(p, NameCur)), D(Join(p, NameNew)), D(Join(p, NameTmp))}

\* the file name of a message without Subject and Date
NameEml == FileName(Msg("absent", "", <<>>, "absent", 0, 1))

DotF == <<Dot>> \o NameF
DotG == <<Dot>> \o NameG

PlainOptions ==
    { {},
      {D(<<NameA>>), D(<<NameA, NameB>>), F(<<NameA, NameX>>)},
      {D(<<NameF>>)},
      {D(<<NameA>>), D(<<NameF>>)},
      {D(<<NameEml>>)} }

StoreOptions ==
    { {},
      {F(<<MAILDIR>>)},
      {D(<<MAILDIR>>)},
      StoreAt(<<MAILDIR>>),
      StoreAt(<<MAILDIR>>) \cup StoreAt(<<MAILDIR, DotF>>),
      StoreAt(<<MAILDIR>>) \cup StoreAt(<<MAILDIR, DotF>>)
          \cup StoreAt(<<MAILDIR, DotF, DotG>>) }

SourceTrees ==
    {TreeOf({}), TreeOf({F(<<>>)})}
    \cup {TreeOf({D(<<>>)} \cup a \cup c) : a \in PlainOptions, c \in StoreOptions}

StorePaths(tree) == {p \in DOMAIN tree : StoreReadable(tree, p)}

MsgsOf(all, p) ==
    LET sel == SelectSeq(all, LAMBDA e : e[1] = p)
    IN  [i \in 1..Len(sel) |-> sel[i][2]]

\* dstPath is <<>>; dstDir = os.path.join(dstPath, os.path.basename(srcPath))
DstPath == << >>
DstDir == Join(DstPath, NameS)

EntriesOf(E) == [p \in {e[1] : e \in E} |-> (CHOOSE e \in E : e[1] = p)[2]]
OldDir(p) == <<p, DirEntry(TRUE)>>
OldFile(p) == <<p, FileEntry(TRUE, 9)>>

DestStates ==
    { EntriesOf({}),
      EntriesOf({OldFile(DstPath)}),
      EntriesOf({OldDir(DstPath)}),
      EntriesOf({OldDir(DstPath), OldFile(DstDir)}),
      EntriesOf({OldDir(DstPath), OldDir(<<NameB>>), OldDir(DstDir),
                 OldDir(Join(DstDir, NameA)), OldFile(Join(Join(DstDir, NameA), NameX)),
                 OldFile(Join(DstDir, NameEml))}) }

NoOp == [op |-> "none", path |-> << >>, res |-> "ok"]

Init ==
    /\ src \in SourceTrees
    /\ \E all \in SeqsUpTo(MaxMsgs, StorePaths(src) \X MsgSet) :
          mail = [p \in StorePaths(src) |-> MsgsOf(all, p)]
    /\ force \in BOOLEAN
    /\ fs0 \in DestStates
    /\ fs = fs0
    /\ pc = "start"
    /\ stack = << >>
    /\ ret = "unset"
    /\ log = "none"
    /\ err = "none"
    /\ lastOp = NoOp
    /\ created = << >>
    /\ subject = << >> /\ safeSubject = << >> /\ again = << >> /\ step = "off"

(***************************************************************************)
(* Control: the call stack and exceptions                                  *)
(***************************************************************************)
Top == stack[Len(stack)]
Pop(stk) == SubSeq(stk, 1, Len(stk) - 1)
SetTop(stk, f) == [stk EXCEPT ![Len(stk)] = f]

PropagateCaught(stk) == [pc |-> "walk", stack |-> Pop(stk)]

\* neither run, exportDir nor recursiveExport catches: an exception unwinds
\* every frame and ends run
Propagate(stk) == [pc |-> "raised", stack |-> << >>]

Raise(e) ==
    /\ err' = (IF err = "none" THEN e ELSE err)
    /\ pc' = Propagate(stack).pc
    /\ stack' = Propagate(stack).stack

\* line 54: for fileName in os.listdir(srcPath)
ExportDirFrame(srcPath, dstPath) ==
    [fn |-> "exportDir", srcPath |-> srcPath, dstPath |-> dstPath,
     phase |-> "loop", names |-> ListDir(src, srcPath), keys |-> {}]

\* line 90: recursiveExport(srcPath, dstPath) entered
StoreFrame(srcPath, dstPath) ==
    [fn |-> "recursiveExport", srcPath |-> srcPath, dstPath |-> dstPath,
     phase |-> "open", names |-> {}, keys |-> {}]

ExportDirCallFlat(srcPath, dstPath, fileName) ==
    ExportDirFrame(Join(srcPath, fileName), dstPath)

\* lines 66-69: self.exportDir(filePath, dstDir)
ExportDirCall(srcPath, dstPath, fileName) ==
    ExportDirFrame(Join(srcPath, fileName), Join(dstPath, fileName))

FolderCallDotted(srcPath, dstPath, folder) ==
    StoreFrame(Join(srcPath, <<Dot>> \o folder), Join(dstPath, <<Dot>> \o folder))

\* lines 135-138: self.recursiveExport(subSrcPath, subDstPath)
FolderCall(srcPath, dstPath, folder) ==
    StoreFrame(Join(srcPath, <<Dot>> \o folder), Join(dstPath, folder))

RunDecisionForceAlways(srcIsDir, dstIsDir, dstDirExists, f) ==
    IF ~srcIsDir THEN "srcNotDir"
    ELSE IF ~dstIsDir THEN "dstNotDir"
    ELSE IF dstDirExists THEN "rmtree"
    ELSE "mkdir"

RunDecisionNoDstCheck(srcIsDir, dstIsDir, dstDirExists, f) ==
    IF ~srcIsDir THEN "srcNotDir"
    ELSE IF dstDirExists THEN (IF f THEN "rmtree" ELSE "exists")
    ELSE "mkdir"

\* lines 31-46: the checks of run
RunDecision(srcIsDir, dstIsDir, dstDirExists, f) ==
    IF ~srcIsDir THEN "srcNotDir"
    ELSE IF ~dstIsDir THEN "dstNotDir"
    ELSE IF dstDirExists THEN (IF f THEN "rmtree" ELSE "exists")
    ELSE "mkdir"

Decision ==
    RunDecision(IsDir(src, << >>), DstIsDir(fs, DstPath), DstExists(fs, DstDir), force)

\* line 51 is the last statement of run: no return statement follows it
ReturnValue == "None"

(***************************************************************************)
(* Main.run                                                                *)
(***************************************************************************)
Reject(msg) ==
    /\ log' = msg
    /\ ret' = "False"
    /\ pc' = "done"
    /\ UNCHANGED <<src, mail, force, fs0, fs, stack, err, lastOp, created, sanVars>>

\* lines 31-33
RunSourceNotDir == pc = "start" /\ Decision = "srcNotDir" /\ Reject("srcNotDir")

\* lines 35-37
RunDestNotDir == pc = "start" /\ Decision = "dstNotDir" /\ Reject("dstNotDir")

\* lines 44-46
RunDestExists == pc = "start" /\ Decision = "exists" /\ Reject("exists")

\* lines 41-43
RunRmtree ==
    /\ pc = "start"
    /\ Decision = "rmtree"
    /\ IF DstIsDir(fs, DstDir)
         THEN /\ fs' = Rmtree(fs, DstDir)
              /\ pc' = "rmdone"
              /\ UNCHANGED <<stack, err>>
         ELSE /\ Raise("NotADirectoryError")
              /\ UNCHANGED fs
    /\ UNCHANGED <<src, mail, force, fs0, ret, log, lastOp, created, sanVars>>

\* lines 48-51: os.mkdir(dstDir), then exportDir(srcPath, dstDir) is entered
RunMkdir ==
    /\ \/ pc = "start" /\ Decision = "mkdir"
       \/ pc = "rmdone"
    /\ LET r == MkdirResult(fs, DstDir)
       IN  /\ lastOp' = [op |-> "mkdir", path |-> DstDir, res |-> r]
           /\ IF r = "ok"
                THEN /\ fs' = Put(fs, DstDir, DirEntry(FALSE))
                     /\ created' = Append(created, DstDir)
                     /\ pc' = "walk"
                     /\ stack' = <<ExportDirFrame(<< >>, DstDir)>>
                     /\ UNCHANGED err
                ELSE /\ Raise(r)
                     /\ UNCHANGED <<fs, created>>
    /\ UNCHANGED <<src, mail, force, fs0, ret, log, sanVars>>

\* exportDir has returned to run, which ends
RunReturn ==
    /\ pc = "walk"
    /\ stack = << >>
    /\ pc' = "done"
    /\ ret' = ReturnValue
    /\ UNCHANGED <<src, mail, force, fs0, fs, stack, log, err, lastOp, created, sanVars>>

(***************************************************************************)
(* Main.exportDir                                                          *)
(***************************************************************************)
InExportDir == pc = "walk" /\ stack # << >> /\ Top.fn = "exportDir"

\* lines 57-58: not a directory, continue
ExportDirSkip ==
    /\ InExportDir
    /\ \E fileName \in Top.names :
          /\ ~IsDir(src, Join(Top.srcPath, fileName))
          /\ stack' = SetTop(stack, [Top EXCEPT !.names = @ \ {fileName}])
    /\ UNCHANGED <<src, mail, force, fs0, fs, pc, ret, log, err, lastOp, created, sanVars>>

\* lines 60-64: MaildirExporter(filePath, dstPath).export()
ExportDirMaildir ==
    /\ InExportDir
    /\ \E fileName \in Top.names :
          /\ IsDir(src, Join(Top.srcPath, fileName))
          /\ fileName = MAILDIR
          /\ stack' = Append(SetTop(stack, [Top EXCEPT !.names = @ \ {fileName}]),
                             StoreFrame(Join(Top.srcPath, fileName), Top.dstPath))
    /\ UNCHANGED <<src, mail, force, fs0, fs, pc, ret, log, err, lastOp, created, sanVars>>

\* lines 66-69: os.mkdir(dstDir), then exportDir(filePath, dstDir) is entered
ExportDirMkdir ==
    /\ InExportDir
    /\ \E fileName \in Top.names :
          /\ IsDir(src, Join(Top.srcPath, fileName))
          /\ fileName # MAILDIR
          /\ LET dstDir == Join(Top.dstPath, fileName)
                 r == MkdirResult(fs, dstDir)
             IN  /\ lastOp' = [op |-> "mkdir", path |-> dstDir, res |-> r]
                 /\ IF r = "ok"
                      THEN /\ fs' = Put(fs, dstDir, DirEntry(FALSE))
                           /\ created' = Append(created, dstDir)
                           /\ stack' = Append(
                                 SetTop(stack, [Top EXCEPT !.names = @ \ {fileName}]),
                                 ExportDirCall(Top.srcPath, Top.dstPath, fileName))
                           /\ UNCHANGED <<pc, err>>
                      ELSE /\ Raise(r)
                           /\ UNCHANGED <<fs, created>>
    /\ UNCHANGED <<src, mail, force, fs0, ret, log, sanVars>>

\* line 54: the loop is over, exportDir returns
ExportDirReturn ==
    /\ InExportDir
    /\ Top.names = {}
    /\ stack' = Pop(stack)
    /\ UNCHANGED <<src, mail, force, fs0, fs, pc, ret, log, err, lastOp, created, sanVars>>

(***************************************************************************)
(* MaildirExporter.recursiveExport                                         *)
(***************************************************************************)
InStore(phase) ==
    pc = "walk" /\ stack # << >> /\ Top.fn = "recursiveExport" /\ Top.phase = phase

\* lines 93-98: the assertions, the store is opened and its keys are listed
OpenStore ==
    /\ InStore("open")
    /\ IF ~IsDir(src, Top.srcPath) \/ ~DstExists(fs, Top.dstPath)
         THEN Raise("AssertionError")
       ELSE IF ~StoreReadable(src, Top.srcPath)
         THEN Raise("FileNotFoundError")
       ELSE /\ stack' = SetTop(stack, [Top EXCEPT !.phase = "msgs",
                                         !.keys = 1..Len(mail[Top.srcPath])])
            /\ UNCHANGED <<pc, err>>
    /\ UNCHANGED <<src, mail, force, fs0, fs, ret, log, lastOp, created, sanVars>>

\* lines 98-132: one message is named and written
ExportMessage ==
    /\ InStore("msgs")
    /\ \E k \in Top.keys :
          LET message == mail[Top.srcPath][k]
              path == Join(Top.dstPath, FileName(message))
              r == OpenResult(fs, path)
          IN  IF DecodeSubject(message).raise
                THEN /\ Raise("UnicodeDecodeError")
                     /\ UNCHANGED <<fs, lastOp>>
                ELSE /\ lastOp' = [op |-> "open", path |-> path, res |-> r]
                     /\ IF r = "ok"
                          THEN /\ fs' = Put(fs, path, FileEntry(FALSE, message.wire))
                               /\ stack' = SetTop(stack, [Top EXCEPT !.keys = @ \ {k}])
                               /\ UNCHANGED <<pc, err>>
                          ELSE /\ Raise(r)
                               /\ UNCHANGED fs
    /\ UNCHANGED <<src, mail, force, fs0, ret, log, created, sanVars>>

\* line 134: md.list_folders() after the last message
MessagesDone ==
    /\ InStore("msgs")
    /\ Top.keys = {}
    /\ stack' = SetTop(stack, [Top EXCEPT !.phase = "folders",
                                 !.names = ListFolders(src, Top.srcPath)])
    /\ UNCHANGED <<src, mail, force, fs0, fs, pc, ret, log, err, lastOp, created, sanVars>>

\* lines 135-138: os.mkdir(subDstPath), then recursiveExport is entered
ExportFolder ==
    /\ InStore("folders")
    /\ \E folder \in Top.names :
          LET subDstPath == Join(Top.dstPath, folder)
              r == MkdirResult(fs, subDstPath)
          IN  /\ lastOp' = [op |-> "mkdir", path |-> subDstPath, res |-> r]
              /\ IF r = "ok"
                   THEN /\ fs' = Put(fs, subDstPath, DirEntry(FALSE))
                        /\ created' = Append(created, subDstPath)
                        /\ stack' = Append(
                              SetTop(stack, [Top EXCEPT !.names = @ \ {folder}]),
                              FolderCall(Top.srcPath, Top.dstPath, folder))
                        /\ UNCHANGED <<pc, err>>
                   ELSE /\ Raise(r)
                        /\ UNCHANGED <<fs, created>>
    /\ UNCHANGED <<src, mail, force, fs0, ret, log, sanVars>>

\* line 134: the loop is over, recursiveExport returns
StoreReturn ==
    /\ InStore("folders")
    /\ Top.names = {}
    /\ stack' = Pop(stack)
    /\ UNCHANGED <<src, mail, force, fs0, fs, pc, ret, log, err, lastOp, created, sanVars>>

Next ==
    \/ RunSourceNotDir
    \/ RunDestNotDir
    \/ RunDestExists
    \/ RunRmtree
    \/ RunMkdir
    \/ RunReturn
    \/ ExportDirSkip
    \/ ExportDirMaildir
    \/ ExportDirMkdir
    \/ ExportDirReturn
    \/ OpenStore
    \/ ExportMessage
    \/ MessagesDone
    \/ ExportFolder
    \/ StoreReturn

Spec == Init /\ [][Next]_vars

(***************************************************************************)
(* Properties of run                                                       *)
(***************************************************************************)
RootsValid == IsDir(src, << >>) /\ DstIsDir(fs0, DstPath)
Under(f, d) == {p \in DOMAIN f : IsUnder(d, p)}
NewEntries == {p \in DOMAIN fs : ~fs[p].old}
SrcDirs == {p \in DOMAIN src : src[p] = "dir"}
Completed == pc = "done" /\ log = "none"

\* C1: after a completed run over a store without sub-stores, the store's
\* destination holds exactly one file per message, named by FileName and
\* holding the wire bytes of that message.
C1_OneFilePerMessage ==
    (/\ Completed
     /\ <<MAILDIR>> \in StorePaths(src)
     /\ ListFolders(src, <<MAILDIR>>) = {})
    => LET msgs == mail[<<MAILDIR>>]
           files == {p \in DOMAIN fs : Parent(p) = DstDir /\ fs[p].kind = "file"}
       IN  /\ Cardinality(files) = Len(msgs)
           /\ \A k \in 1..Len(msgs) :
                 /\ Join(DstDir, FileName(msgs[k])) \in files
                 /\ fs[Join(DstDir, FileName(msgs[k]))].data = msgs[k].wire

\* C2: a run that completes the walk returns True.
C2_ReturnsTrue == Completed => ret = "True"

\* C3: without force and with dstDir existing, run logs the existing
\* destination, returns False and leaves the destination file system as it was.
C3_DestinationExists ==
    (RootsValid /\ ~force /\ DstExists(fs0, DstDir))
    => /\ fs = fs0
       /\ pc \in {"start", "done"}
       /\ pc = "done" => (ret = "False" /\ log = "exists")

C3_Witness ==
    /\ pc = "done"
    /\ log = "exists"
    /\ Join(DstDir, NameA) \in DOMAIN fs

\* C4: with force and dstDir existing, nothing is left under dstDir when it is
\* recreated, and once anything new is written no prior entry is under dstDir.
C4_PriorContentsGone ==
    (force /\ DstExists(fs0, DstDir))
    => /\ pc = "rmdone" => Under(fs, DstDir) = {}
       /\ NewEntries # {} => \A p \in Under(fs, DstDir) : ~fs[p].old

C4_Witness ==
    /\ force
    /\ Join(DstDir, NameA) \in DOMAIN fs0
    /\ Join(DstDir, NameEml) \in DOMAIN fs0
    /\ Join(DstDir, NameA) \in NewEntries
    /\ <<NameB>> \in DOMAIN fs

\* C5: a completed run over a tree without a directory named Maildir leaves
\* under dstDir exactly the directories of the source tree, and no file.
C5_PlainMirror ==
    (Completed /\ \A p \in SrcDirs : p = << >> \/ Last(p) # MAILDIR)
    => /\ Under(fs, DstDir) = {DstDir \o p : p \in SrcDirs}
       /\ \A p \in Under(fs, DstDir) : fs[p].kind = "dir"

C5_Witness ==
    /\ Completed
    /\ <<MAILDIR>> \in DOMAIN src
    /\ <<NameA, NameX>> \in DOMAIN src
    /\ DstDir \o <<NameA, NameB>> \in DOMAIN fs

\* C6: when srcPath or dstPath is not a directory, run returns False after
\* logging which one, and the destination file system is as it was.
C6_InvalidInput ==
    ~RootsValid
    => /\ fs = fs0
       /\ pc \in {"start", "done"}
       /\ pc = "done" => (ret = "False" /\ log \in {"srcNotDir", "dstNotDir"})

C6_Witness ==
    /\ pc = "done"
    /\ log = "dstNotDir"
    /\ force
    /\ DstExists(fs0, DstPath)

\* C9: no os.mkdir or open fails for want of the parent directory, the
\* assertions of recursiveExport hold, no path is created twice, and every
\* entry written lies in a directory that exists and, below dstDir, was created
\* by the run.
C9_CreateBeforeWrite ==
    /\ lastOp.res \notin {"FileNotFoundError", "NotADirectoryError"}
    /\ err # "AssertionError"
    /\ \A i, j \in 1..Len(created) : created[i] = created[j] => i = j
    /\ \A p \in NewEntries :
          /\ DstIsDir(fs, Parent(p))
          /\ p = DstDir \/ \E i \in 1..Len(created) : created[i] = Parent(p)

C9_Witness ==
    /\ Join(DstDir, NameA) \in NewEntries
    /\ \E p \in NewEntries :
          /\ fs[p].kind = "file"
          /\ Parent(p) = DstDir \o <<NameF, NameG>>

\* C10: when an exception is raised every frame is unwound and run ends, and
\* after an exception the destination file system never changes again.
C10_FailFast ==
    [][/\ err' # "none" => (pc' = "raised" /\ stack' = << >>)
       /\ err # "none" => (fs' = fs /\ created' = created)]_vars

C10_Witness ==
    /\ err = "FileExistsError"
    /\ pc = "raised"
    /\ \E p \in NewEntries : fs[p].kind = "file"
    /\ <<NameA>> \in SrcDirs
    /\ Join(DstDir, NameA) \notin DOMAIN fs

(***************************************************************************)
(* Sanitizer inputs: prefix, a run of one filler character, suffix         *)
(***************************************************************************)
\* '|', '.', TAB, US, 'a', '_', the ellipsis
SubjectChars == {124, 46, 9, 31, 97, Underscore, Ellipsis}
FillChars == {97, 9}
FillLens == {0} \cup ((MAXSUBJLEN - MaxSuf - 1)..(MAXSUBJLEN + MaxOver))
Fill(c, n) == [i \in 1..n |-> c]

SanInit ==
    /\ \E p \in SeqsUpTo(MaxPre, SubjectChars), q \in SeqsUpTo(MaxSuf, SubjectChars),
          c \in FillChars, n \in FillLens :
            subject = p \o Fill(c, n) \o q
    /\ safeSubject = <<>>
    /\ again = <<>>
    /\ step = "in"
    /\ src = << >> /\ mail = << >> /\ force = FALSE /\ fs0 = << >> /\ fs = << >>
    /\ pc = "off" /\ stack = << >> /\ ret = "unset" /\ log = "none"
    /\ err = "none" /\ lastOp = << >> /\ created = << >>

\* lines 124-127 applied to the decoded subject
Sanitize ==
    /\ step = "in"
    /\ safeSubject' = SafeSubject(subject)
    /\ step' = "once"
    /\ UNCHANGED <<subject, again, runVars>>

\* lines 124-127 applied to a subject that is already sanitized
SanitizeAgain ==
    /\ step = "once"
    /\ again' = SafeSubject(safeSubject)
    /\ step' = "twice"
    /\ UNCHANGED <<subject, safeSubject, runVars>>

SanNext == Sanitize \/ SanitizeAgain

SpecSan == SanInit /\ [][SanNext]_vars

\* C7: the sanitized subject holds no replaced character and no control
\* character, is at most MAXSUBJLEN + 1 long, and ends in the ellipsis exactly
\* when more than MAXSUBJLEN characters of the subject survive the stripping.
C7_SafeSubjectClean ==
    step # "in" =>
        LET kept == Cardinality({i \in 1..Len(subject) : subject[i] \notin removeChars})
        IN  /\ \A i \in 1..Len(safeSubject) :
                  safeSubject[i] \notin (REPLACECHARS \cup removeChars)
            /\ Len(safeSubject) <= MAXSUBJLEN + 1
            /\ IF kept > MAXSUBJLEN
                  THEN /\ Len(safeSubject) = MAXSUBJLEN + 1
                       /\ safeSubject[MAXSUBJLEN + 1] = Ellipsis
                  ELSE Len(safeSubject) = kept

C7_Witness ==
    /\ step = "once"
    /\ Len(safeSubject) = MAXSUBJLEN + 1
    /\ \E i \in 1..Len(subject) : subject[i] \in REPLACECHARS
    /\ \E i \in 1..Len(subject) : subject[i] \in removeChars

\* C8: sanitizing a sanitized subject gives the same string.
C8_Idempotent == step = "twice" => again = safeSubject

C8_Witness ==
    /\ step = "twice"
    /\ Len(subject) > MAXSUBJLEN + 1
    /\ Len(safeSubject) = MAXSUBJLEN + 1
    /\ again = safeSubject

====
